---- MODULE Spec2Model ----
(***************************************************************************)
(* Sliding-window rate limiter by key (package rlzone).                    *)
(*                                                                         *)
(* Time is counted in ticks.  A time.Time is the number of ticks since     *)
(* Go's zero time; the zero value of a time.Time field is 0.  The clock    *)
(* starts far from the zero time, so that no request window starts at 0.   *)
(* A float64 estimate v is represented by the integer v * window, which    *)
(* is exact because every estimate is a multiple of 1/window.              *)
(***************************************************************************)
EXTENDS Integers, FiniteSets, Sequences, TLC

\* ---------------------------------------------------------------- bounds
\* Ticks per window of the modelled limiter.
Window == 3
\* Limits 1..MaxLimit are modelled.
MaxLimit == 3
\* Calls started in one behaviour of the concurrent specification.
MaxCalls == 5
\* Ticks the clock runs over.
Horizon == 6
\* Calls started in one behaviour of the specification with AllowN.
MaxNCalls == 3
\* Calls made in one behaviour of the sequential specification.
MaxSeqCalls == 6
\* Calls started in one behaviour of the fairly scheduled specification.
MaxLiveCalls == 3
\* Further ticks the clock of the long sequential specification runs over.
SeqExtra == 3
\* TestRatelimitZone: const limit = 20; const wnd = time.Second, in ticks of
\* wnd / 20; const sleepStep = wnd / limit.
TestLimit == 20
TestWnd == 20
sleepStep == TestWnd \div TestLimit

Limits == 1..MaxLimit
\* The keys of the README example and of the tests.
Keys == {"user1", "user2"}
\* Two goroutines calling into one limiter.
Procs == {"g1", "g2"}
ClockStart == 2 * Window
MaxTime == ClockStart + Horizon - 1
MaxSeqTime == MaxTime + SeqExtra
Times == 0..MaxSeqTime
None == "none"

VARIABLES
  window, limit,                 \* RatelimitZone.window, .limit
  prevMap, currMap,              \* RatelimitZone.prevMap, .currMap (0 = key absent)
  prevWndStart, currWndStart,    \* RatelimitZone.prevWndStart, .currWndStart
  mux,                           \* RatelimitZone.mux: the holder, or None
  clock,                         \* time.Now()
  pc, op, key, nArg, req,        \* each caller: position, method, arguments, captured time points
  ret, retVal,                   \* each caller: bool result / estimate (scaled by window) being returned
  nCalls,                        \* calls started so far
  admitted,                      \* history: units admitted per key and captured window
  decided,                       \* history: Allow calls decided per key and captured window (sequential runs)
  shadow, shRet, shVal,          \* per key, a limiter that receives that key's calls only
  lastDenied,                    \* history: per key, the time its latest Allow was denied at, if it was (sequential runs)
  testPc, testI, testRet,        \* the test program of rlzone_test.go
  ctorPc, ctorArgs, ctorRl, ctorErr  \* a constructor call: position, arguments, results

zvars == <<prevMap, currMap, prevWndStart, currWndStart>>
callvars == <<pc, op, key, nArg, req, ret, retVal, nCalls>>
histvars == <<admitted, decided, shadow, shRet, shVal, lastDenied>>
testvars == <<testPc, testI, testRet>>
ctorvars == <<ctorPc, ctorArgs, ctorRl, ctorErr>>
vars == <<window, limit, zvars, mux, clock, callvars, histvars, testvars, ctorvars>>

\* ------------------------------------------------------- pure functions
EmptyMap == [k \in Keys |-> 0]

\* The mutable fields of a RatelimitZone as one value.
Zone(pm, cm, ps, cs) ==
  [prevMap |-> pm, currMap |-> cm, prevWndStart |-> ps, currWndStart |-> cs]

Z == Zone(prevMap, currMap, prevWndStart, currWndStart)

\* New: both maps made empty, both window starts the zero time.
NewZone == Zone(EmptyMap, EmptyMap, 0, 0)

\* time.Time.Truncate(d): round down to a multiple of d since the zero time.
Truncate(t, d) == t - (t % d)

\* The current window starts at the clock reading itself.
getTimePointsUntruncated(t) ==
  [prev |-> t - window, curr |-> t, now |-> t]

\* getTimePoints for a clock reading t.
getTimePoints(t) ==
  [prev |-> Truncate(t, window) - window, curr |-> Truncate(t, window), now |-> t]

\* getWndMap: which map carries wndStart: "curr", "prev", a "fresh" one, or "nil".
getWndMap(z, wndStart, create) ==
  IF wndStart = z.currWndStart THEN "curr"
  ELSE IF wndStart = z.prevWndStart THEN "prev"
  ELSE IF create THEN "fresh"
  ELSE "nil"

\* The map a getWndMap result refers to.
MapAt(z, m) ==
  IF m = "curr" THEN z.currMap ELSE IF m = "prev" THEN z.prevMap ELSE EmptyMap

getCounter(z, k, wndStart) ==
  LET m == getWndMap(z, wndStart, FALSE)
  IN IF m # "nil" THEN MapAt(z, m)[k] ELSE 0

\* ^uint8(0): the largest value of the narrowest counter type.
uint8Max == 255

\* The modelled limits fit the 8-bit counter NewSmallest picks for them:
\* a counter wraps around at uint8Max + 1.
CounterModulus == uint8Max + 1

\* incCounter: m[key]++ on the map that carries wndStart, if any.
incCounter(z, k, wndStart) ==
  LET m == getWndMap(z, wndStart, FALSE)
  IN IF m = "curr"
       THEN [z EXCEPT !.currMap[k] = (@ + 1) % CounterModulus]
     ELSE IF m = "prev"
       THEN [z EXCEPT !.prevMap[k] = (@ + 1) % CounterModulus]
     ELSE z

\* The weight grows with the elapsed fraction instead of decaying.
multiplierGrows(now, cws) == now - cws

\* The weight is not divided by the window.
multiplierUnscaled(now, cws) == window * (window - (now - cws))

\* multiplier := 1 - now.Sub(currWndStart) / window, scaled by window.
multiplier(now, cws) == window - (now - cws)

\* getWindowValue, scaled by window.
getWindowValue(z, k, pws, cws, now) ==
  LET prevCtr == getCounter(z, k, pws)
      currCtr == getCounter(z, k, cws)
  IN prevCtr * multiplier(now, cws) + currCtr * window

\* Rotation that relabels: the stored window starts move to the computed
\* ones and both maps stay as they are.
shiftMapsRelabels(z, prevStart, currStart) ==
  [z EXCEPT !.prevWndStart = prevStart, !.currWndStart = currStart]

\* Rotation that drops everything: when the computed window starts differ
\* from the stored ones both maps are replaced by fresh ones.
shiftMapsDropBoth(z, prevStart, currStart) ==
  IF prevStart = z.prevWndStart /\ currStart = z.currWndStart THEN z
  ELSE Zone(EmptyMap, EmptyMap, prevStart, currStart)

\* shiftMaps: the second lookup sees the prevWndStart the first one has stored.
shiftMaps(z, prevStart, currStart) ==
  LET newPrevMap == MapAt(z, getWndMap(z, prevStart, TRUE))
      z1 == [z EXCEPT !.prevMap = newPrevMap, !.prevWndStart = prevStart]
      newCurrMap == MapAt(z1, getWndMap(z1, currStart, TRUE))
  IN [z1 EXCEPT !.currMap = newCurrMap, !.currWndStart = currStart]

\* Denies one unit late: val > limit.
DenyAbove(val) == val > limit * window

\* Denies one unit early: val + 1 >= limit.
DenyAtLeast(val) == val + window >= limit * window

\* The denial test of Allow, `val+1 > float64(z.limit)`, on the scaled estimate.
Deny(val) == val + window > limit * window

\* The locked part of Allow as a function of the state: result and new state.
allowLocked(z, k, r) ==
  LET val == getWindowValue(z, k, r.prev, r.curr, r.now)
  IN IF Deny(val)
       THEN [ok |-> FALSE, z |-> z]
       ELSE [ok |-> TRUE, z |-> incCounter(shiftMaps(z, r.prev, r.curr), k, r.curr)]

\* ------------------------------------------------------ constructors
\* ^uint16(0)
uint16Max == 65535

\* A uint64 is written as four 16-bit limbs, least significant first.
LimbBase == uint16Max + 1

\* The uint64 of a small natural number (below LimbBase * LimbBase).
U64(n) == <<n % LimbBase, n \div LimbBase, 0, 0>>

\* ^uint32(0)
uint32Max == <<uint16Max, uint16Max, 0, 0>>

\* ^uint64(0)
uint64Max == <<uint16Max, uint16Max, uint16Max, uint16Max>>

RECURSIVE LeqFrom(_, _, _)
LeqFrom(a, b, i) ==
  IF i = 0 THEN TRUE
  ELSE IF a[i] # b[i] THEN a[i] < b[i]
  ELSE LeqFrom(a, b, i - 1)

\* a < b on uint64: a limit equal to the maximum of a width does not fit it.
LessU64(a, b) == LeqFrom(a, b, 4) /\ a # b

\* a <= b on uint64.
LeqU64(a, b) == LeqFrom(a, b, 4)

\* The counter widths of CounterValue that NewSmallest chooses from.
Widths == {8, 16, 32, 64}

\* The conversions uint8(limit), uint16(limit), uint32(limit): the low bits.
Narrow(x, bits) ==
  CASE bits = 8 -> <<x[1] % (uint8Max + 1), 0, 0, 0>>
    [] bits = 16 -> <<x[1], 0, 0, 0>>
    [] bits = 32 -> <<x[1], x[2], 0, 0>>
    [] OTHER -> x

\* What a constructor returns as its limiter: kind "nil" is a nil pointer or
\* a nil interface, "typedNil" an interface holding a nil pointer, "zone" a
\* RatelimitZone with counters of the given width.
Rl(kind, bits, w, lim) ==
  [kind |-> kind, bits |-> bits, window |-> w, limit |-> lim,
   prevMap |-> NewZone.prevMap, currMap |-> NewZone.currMap,
   prevWndStart |-> NewZone.prevWndStart, currWndStart |-> NewZone.currWndStart]

NilRl == Rl("nil", 0, 0, U64(0))

ErrZeroWindow == "zero window value passed to ratelimit constructor!"
ErrZeroLimit == "zero limit value passed to ratelimit constructor!"
ErrBadSpec == "bad limiter specification format"

\* Rejects a negative window only: a zero window passes.
NewNegativeWindowOnly(w, lim, bits) ==
  IF w < 0 THEN [rl |-> NilRl, err |-> ErrZeroWindow]
  ELSE IF lim = U64(0) THEN [rl |-> NilRl, err |-> ErrZeroLimit]
  ELSE [rl |-> Rl("zone", bits, w, lim), err |-> None]

\* New[K, V](window, limit), V the unsigned type of the given width.
New(w, lim, bits) ==
  IF w <= 0 THEN [rl |-> NilRl, err |-> ErrZeroWindow]
  ELSE IF lim = U64(0) THEN [rl |-> NilRl, err |-> ErrZeroLimit]
  ELSE [rl |-> Rl("zone", bits, w, lim), err |-> None]

\* A *RatelimitZone[K, V] returned as a Ratelimiter[K]: a nil pointer becomes
\* an interface value that holds a nil pointer of that type.
AsRatelimiter(rl, bits) ==
  IF rl.kind = "nil" THEN Rl("typedNil", bits, 0, U64(0)) ELSE rl

NewSmallest(w, lim) ==
  LET bits == IF LeqU64(lim, U64(uint8Max)) THEN 8
              ELSE IF LeqU64(lim, U64(uint16Max)) THEN 16
              ELSE IF LeqU64(lim, uint32Max) THEN 32
              ELSE 64
      res == New(w, Narrow(lim, bits), bits)
  IN [rl |-> AsRatelimiter(res.rl, bits), err |-> res.err]

\* A string is a sequence of one-character strings.
Digits == <<"0", "1", "2", "3", "4", "5", "6", "7", "8", "9">>

IsDigit(c) == \E i \in DOMAIN Digits : Digits[i] = c

DigitVal(c) == (CHOOSE i \in DOMAIN Digits : Digits[i] = c) - 1

\* strings.SplitN(s, sep, 2): cut at the first separator, if there is one.
SplitN2(s, sep) ==
  IF \E i \in DOMAIN s : s[i] = sep
    THEN LET i == CHOOSE j \in DOMAIN s : s[j] = sep /\ \A h \in 1..(j - 1) : s[h] # sep
         IN <<SubSeq(s, 1, i - 1), SubSeq(s, i + 1, Len(s))>>
    ELSE <<s>>

\* x * 10 + d on uint64, with the overflow out of 64 bits.
MulAdd10(x, d) ==
  LET t1 == x[1] * 10 + d
      t2 == x[2] * 10 + t1 \div LimbBase
      t3 == x[3] * 10 + t2 \div LimbBase
      t4 == x[4] * 10 + t3 \div LimbBase
  IN [val |-> <<t1 % LimbBase, t2 % LimbBase, t3 % LimbBase, t4 % LimbBase>>,
      over |-> t4 \div LimbBase > 0]

RECURSIVE ParseDigits(_, _, _)
ParseDigits(s, i, acc) ==
  IF i > Len(s) THEN [val |-> acc, err |-> FALSE]
  ELSE IF ~IsDigit(s[i]) THEN [val |-> U64(0), err |-> TRUE]
  ELSE LET m == MulAdd10(acc, DigitVal(s[i]))
       IN IF m.over THEN [val |-> uint64Max, err |-> TRUE]
          ELSE ParseDigits(s, i + 1, m.val)

\* strconv.ParseUint(s, 10, 64): decimal digits only, no sign, within 64 bits.
ParseUint(s) ==
  IF s = <<>> THEN [val |-> U64(0), err |-> TRUE] ELSE ParseDigits(s, 1, U64(0))

\* Seconds per unit, of the units of time.ParseDuration that are modelled.
UnitSeconds(c) == CASE c = "s" -> 1 [] c = "m" -> 60 [] c = "h" -> 3600 [] OTHER -> 0

\* The groups <digits><unit> of a duration from position i on; n is the
\* number read so far in the group, some says that it has a digit.
RECURSIVE ParseGroups(_, _, _, _, _)
ParseGroups(s, i, acc, n, some) ==
  IF i > Len(s) THEN [val |-> acc, err |-> some]
  ELSE IF IsDigit(s[i]) THEN ParseGroups(s, i + 1, acc, n * 10 + DigitVal(s[i]), TRUE)
  ELSE IF some /\ UnitSeconds(s[i]) # 0
    THEN ParseGroups(s, i + 1, acc + n * UnitSeconds(s[i]), 0, FALSE)
  ELSE [val |-> 0, err |-> TRUE]

\* time.ParseDuration(s), in seconds, for durations written with an optional
\* sign and whole numbers of h, m and s ("0" needs no unit).
ParseDuration(s) ==
  LET neg == s # <<>> /\ s[1] = "-"
      body == IF s # <<>> /\ s[1] \in {"-", "+"} THEN Tail(s) ELSE s
      res == ParseGroups(body, 1, 0, 0, FALSE)
  IN IF body = <<"0">> THEN [val |-> 0, err |-> FALSE]
     ELSE IF body = <<>> THEN [val |-> 0, err |-> TRUE]
     ELSE [val |-> IF neg THEN 0 - res.val ELSE res.val, err |-> res.err]

\* FromString(limiterSpec): a nil interface and an error unless the
\* specification parses, else what NewSmallest returns.
FromString(s) ==
  LET parts == SplitN2(s, "/")
  IN IF Len(parts) # 2 THEN [rl |-> NilRl, err |-> ErrBadSpec]
     ELSE LET count == ParseUint(parts[1])
              wnd == ParseDuration(parts[2])
          IN IF count.err THEN [rl |-> NilRl, err |-> ErrBadSpec]
             ELSE IF wnd.err THEN [rl |-> NilRl, err |-> ErrBadSpec]
             ELSE NewSmallest(wnd.val, count.val)

\* The limits around every width boundary.
LimitSamples ==
  {U64(0), U64(1), U64(2), U64(uint8Max - 1), U64(uint8Max), U64(uint8Max + 1),
   U64(uint8Max + 2), U64(uint16Max - 1), U64(uint16Max), U64(uint16Max + 1),
   U64(uint16Max + 2), <<uint16Max - 1, uint16Max, 0, 0>>, uint32Max,
   <<0, 0, 1, 0>>, <<1, 0, 1, 0>>, <<0, 0, 0, 1>>, uint64Max}

\* Window durations around zero.
Durations == {0 - Window, 0 - 1, 0, 1, Window}

\* Limiter specifications: those of TestFromString and malformed or rejected ones.
SpecStrings ==
  {<<"1", "0", "0", "/", "1", "m">>,
   <<"1", "0", "/", "1", "m", "3", "0", "s">>,
   <<"1", "0", "0", "0", "0", "/", "1", "h">>,
   <<"7", "0", "/", "1", "s">>,
   <<"1", "0", "0", "0", "0", "0", "0", "0", "0", "0", "0", "/", "2", "4", "h">>,
   <<"4", "2", "9", "4", "9", "6", "7", "2", "9", "6", "/", "1", "s">>,
   <<"2", "5", "6", "/", "1", "s">>,
   <<"0", "/", "1", "s">>,
   <<"0", "0", "/", "1", "s">>,
   <<"5", "/", "0", "s">>,
   <<"5", "/", "0">>,
   <<"5", "/", "-", "1", "s">>,
   <<"5">>,
   <<>>,
   <<"/">>,
   <<"5", "/">>,
   <<"/", "1", "s">>,
   <<"x", "/", "1", "s">>,
   <<"-", "5", "/", "1", "s">>,
   <<"5", "/", "z">>,
   <<"5", "/", "1">>,
   <<"5", "/", "1", "s", "/", "2">>,
   <<"1", "8", "4", "4", "6", "7", "4", "4", "0", "7", "3", "7", "0", "9", "5", "5",
     "1", "6", "1", "6", "/", "1", "s">>}

Args(fn, w, lim, bits, str) ==
  [fn |-> fn, window |-> w, limit |-> lim, bits |-> bits, spec |-> str]

NoArgs == Args("none", 0, U64(0), 0, <<>>)

\* The calls made: New with a limit of each counter type, NewSmallest with a
\* uint64 limit, FromString with a specification.
CtorArgs ==
  {Args("New", w, Narrow(lim, bits), bits, <<>>) :
     w \in Durations, lim \in LimitSamples, bits \in Widths}
  \cup {Args("NewSmallest", w, lim, 0, <<>>) : w \in Durations, lim \in LimitSamples}
  \cup {Args("FromString", 0, U64(0), 0, str) : str \in SpecStrings}

\* ---------------------------------------------------------------- state
NoReq == [prev |-> 0, curr |-> 0, now |-> 0]

InitZone ==
  /\ prevMap = NewZone.prevMap
  /\ currMap = NewZone.currMap
  /\ prevWndStart = NewZone.prevWndStart
  /\ currWndStart = NewZone.currWndStart
  /\ mux = None

InitCalls ==
  /\ pc = [p \in Procs |-> "idle"]
  /\ op = [p \in Procs |-> "none"]
  /\ key = [p \in Procs |-> "user1"]
  /\ nArg = [p \in Procs |-> 1]
  /\ req = [p \in Procs |-> NoReq]
  /\ ret = [p \in Procs |-> FALSE]
  /\ retVal = [p \in Procs |-> 0]
  /\ nCalls = 0

InitHist ==
  /\ admitted = [k \in Keys |-> [w \in Times |-> 0]]
  /\ decided = [k \in Keys |-> [w \in Times |-> 0]]
  /\ shadow = [k \in Keys |-> NewZone]
  /\ shRet = [p \in Procs |-> FALSE]
  /\ shVal = [p \in Procs |-> 0]
  /\ lastDenied = [k \in Keys |-> {}]

TestOff ==
  /\ testPc = "off"
  /\ testI = 0
  /\ testRet = FALSE

\* No constructor call is modelled: the limiter exists.
CtorOff ==
  /\ ctorPc = "off"
  /\ ctorArgs = NoArgs
  /\ ctorRl = NilRl
  /\ ctorErr = None

\* New(window, limit) with window > 0 and limit # 0.
Init ==
  /\ window = Window
  /\ limit \in Limits
  /\ InitZone
  /\ clock = ClockStart
  /\ InitCalls
  /\ InitHist
  /\ TestOff
  /\ CtorOff

\* The clock advances (it never goes backward here).
Tick ==
  /\ clock < MaxTime
  /\ clock' = clock + 1
  /\ UNCHANGED <<window, limit, zvars, mux, callvars, histvars, testvars, ctorvars>>

\* A caller enters a method: getTimePoints, before the lock.
Call(p, o, k, n, max) ==
  /\ pc[p] = "idle"
  /\ nCalls < max
  /\ nCalls' = nCalls + 1
  /\ pc' = [pc EXCEPT ![p] = "waitLock"]
  /\ op' = [op EXCEPT ![p] = o]
  /\ key' = [key EXCEPT ![p] = k]
  /\ nArg' = [nArg EXCEPT ![p] = n]
  /\ req' = [req EXCEPT ![p] = getTimePoints(clock)]
  /\ UNCHANGED <<window, limit, zvars, mux, clock, ret, retVal, histvars, testvars, ctorvars>>

AllowCall(p, k) == Call(p, "Allow", k, 1, MaxCalls)

GetWindowValueCall(p, k) == Call(p, "GetWindowValue", k, 1, MaxCalls)

\* z.mux.Lock()
LockNoGuard(p) == mux' = p

Lock(p) ==
  /\ mux = None
  /\ mux' = p

\* Allow, lines 115-121: the lock, the estimate and the decision.
AllowLock(p) ==
  /\ pc[p] = "waitLock"
  /\ op[p] = "Allow"
  /\ Lock(p)
  /\ LET k == key[p]
         r == req[p]
         deny == Deny(getWindowValue(Z, k, r.prev, r.curr, r.now))
         sh == allowLocked(shadow[k], k, r)
     IN /\ ret' = [ret EXCEPT ![p] = ~deny]
        /\ shRet' = [shRet EXCEPT ![p] = sh.ok]
        /\ pc' = [pc EXCEPT ![p] = IF deny THEN "unlock" ELSE "admit"]
        /\ shadow' = [shadow EXCEPT ![k] = sh.z]
  /\ UNCHANGED <<window, limit, zvars, clock, op, key, nArg, req, retVal, nCalls,
                 admitted, decided, shVal, lastDenied, testvars, ctorvars>>

\* Allow, lines 123-127: shiftMaps, incCounter, return true.
AllowCommit(p) ==
  /\ pc[p] = "admit"
  /\ op[p] = "Allow"
  /\ LET k == key[p]
         r == req[p]
         z2 == incCounter(shiftMaps(Z, r.prev, r.curr), k, r.curr)
     IN /\ prevMap' = z2.prevMap
        /\ currMap' = z2.currMap
        /\ prevWndStart' = z2.prevWndStart
        /\ currWndStart' = z2.currWndStart
        /\ admitted' = [admitted EXCEPT ![k][r.curr] = @ + 1]
  /\ pc' = [pc EXCEPT ![p] = "unlock"]
  /\ UNCHANGED <<window, limit, mux, clock, op, key, nArg, req, ret, retVal, nCalls,
                 decided, shadow, shRet, shVal, lastDenied, testvars, ctorvars>>

\* GetWindowValue that rotates the stored state to the call's windows first.
GetWindowValueLockRotates(p) ==
  /\ pc[p] = "waitLock"
  /\ op[p] = "GetWindowValue"
  /\ Lock(p)
  /\ LET k == key[p]
         r == req[p]
         z2 == shiftMaps(Z, r.prev, r.curr)
     IN /\ prevMap' = z2.prevMap
        /\ currMap' = z2.currMap
        /\ prevWndStart' = z2.prevWndStart
        /\ currWndStart' = z2.currWndStart
        /\ retVal' = [retVal EXCEPT ![p] = getWindowValue(z2, k, r.prev, r.curr, r.now)]
        /\ shVal' = [shVal EXCEPT ![p] = getWindowValue(shadow[k], k, r.prev, r.curr, r.now)]
  /\ pc' = [pc EXCEPT ![p] = "unlock"]
  /\ UNCHANGED <<window, limit, clock, op, key, nArg, req, ret, nCalls,
                 admitted, decided, shadow, shRet, lastDenied, testvars, ctorvars>>

\* GetWindowValue, lines 150-152.
GetWindowValueLock(p) ==
  /\ pc[p] = "waitLock"
  /\ op[p] = "GetWindowValue"
  /\ Lock(p)
  /\ LET k == key[p]
         r == req[p]
     IN /\ retVal' = [retVal EXCEPT ![p] = getWindowValue(Z, k, r.prev, r.curr, r.now)]
        /\ shVal' = [shVal EXCEPT ![p] = getWindowValue(shadow[k], k, r.prev, r.curr, r.now)]
  /\ pc' = [pc EXCEPT ![p] = "unlock"]
  /\ UNCHANGED <<window, limit, zvars, clock, op, key, nArg, req, ret, nCalls,
                 admitted, decided, shadow, shRet, lastDenied, testvars, ctorvars>>

\* The deferred Unlock is left out: the caller returns holding the mutex.
ReturnLocked(p) ==
  /\ pc[p] = "unlock"
  /\ mux' = mux
  /\ pc' = [pc EXCEPT ![p] = "idle"]
  /\ op' = [op EXCEPT ![p] = "none"]
  /\ key' = [key EXCEPT ![p] = "user1"]
  /\ nArg' = [nArg EXCEPT ![p] = 1]
  /\ req' = [req EXCEPT ![p] = NoReq]
  /\ ret' = [ret EXCEPT ![p] = FALSE]
  /\ retVal' = [retVal EXCEPT ![p] = 0]
  /\ shRet' = [shRet EXCEPT ![p] = FALSE]
  /\ shVal' = [shVal EXCEPT ![p] = 0]
  /\ UNCHANGED <<window, limit, zvars, clock, nCalls, admitted, decided, shadow,
                 lastDenied, testvars, ctorvars>>

\* defer z.mux.Unlock(), and the return: the caller's locals are gone.
Unlock(p) ==
  /\ pc[p] = "unlock"
  /\ mux' = None
  /\ pc' = [pc EXCEPT ![p] = "idle"]
  /\ op' = [op EXCEPT ![p] = "none"]
  /\ key' = [key EXCEPT ![p] = "user1"]
  /\ nArg' = [nArg EXCEPT ![p] = 1]
  /\ req' = [req EXCEPT ![p] = NoReq]
  /\ ret' = [ret EXCEPT ![p] = FALSE]
  /\ retVal' = [retVal EXCEPT ![p] = 0]
  /\ shRet' = [shRet EXCEPT ![p] = FALSE]
  /\ shVal' = [shVal EXCEPT ![p] = 0]
  /\ UNCHANGED <<window, limit, zvars, clock, nCalls, admitted, decided, shadow,
                 lastDenied, testvars, ctorvars>>

Next ==
  \/ Tick
  \/ \E p \in Procs, k \in Keys : AllowCall(p, k)
  \/ \E p \in Procs, k \in Keys : GetWindowValueCall(p, k)
  \/ \E p \in Procs : AllowLock(p)
  \/ \E p \in Procs : AllowCommit(p)
  \/ \E p \in Procs : GetWindowValueLock(p)
  \/ \E p \in Procs : Unlock(p)

Spec == Init /\ [][Next]_vars

\* ------------------------------------------- sequential callers (one goroutine)
Caller == "g1"

SeqInit == Init

\* Allow called and returned with nothing else running: lines 112-128.
SeqAllow(k) ==
  /\ nCalls < MaxSeqCalls
  /\ nCalls' = nCalls + 1
  /\ LET r == getTimePoints(clock)
         res == allowLocked(Z, k, r)
     IN /\ prevMap' = res.z.prevMap
        /\ currMap' = res.z.currMap
        /\ prevWndStart' = res.z.prevWndStart
        /\ currWndStart' = res.z.currWndStart
        /\ op' = [op EXCEPT ![Caller] = "Allow"]
        /\ key' = [key EXCEPT ![Caller] = k]
        /\ req' = [req EXCEPT ![Caller] = r]
        /\ ret' = [ret EXCEPT ![Caller] = res.ok]
        /\ decided' = [decided EXCEPT ![k][r.curr] = @ + 1]
        /\ admitted' = [admitted EXCEPT ![k][r.curr] = @ + (IF res.ok THEN 1 ELSE 0)]
        /\ lastDenied' = [lastDenied EXCEPT ![k] = IF res.ok THEN {} ELSE {r.now}]
  /\ UNCHANGED <<window, limit, mux, clock, pc, nArg, retVal, shadow, shRet, shVal, testvars, ctorvars>>

\* GetWindowValue called and returned with nothing else running: lines 148-153.
SeqGetWindowValue(k) ==
  /\ nCalls < MaxSeqCalls
  /\ nCalls' = nCalls + 1
  /\ LET r == getTimePoints(clock)
     IN /\ op' = [op EXCEPT ![Caller] = "GetWindowValue"]
        /\ key' = [key EXCEPT ![Caller] = k]
        /\ req' = [req EXCEPT ![Caller] = r]
        /\ retVal' = [retVal EXCEPT ![Caller] = getWindowValue(Z, k, r.prev, r.curr, r.now)]
  /\ UNCHANGED <<window, limit, zvars, mux, clock, pc, nArg, ret, histvars, testvars, ctorvars>>

SeqNext ==
  \/ Tick
  \/ \E k \in Keys : SeqAllow(k)
  \/ \E k \in Keys : SeqGetWindowValue(k)

SpecSeq == SeqInit /\ [][SeqNext]_vars

\* ------------------------------ sequential callers over three windows
\* The clock advances, long enough to leave two whole windows behind.
TickLong ==
  /\ clock < MaxSeqTime
  /\ clock' = clock + 1
  /\ UNCHANGED <<window, limit, zvars, mux, callvars, histvars, testvars, ctorvars>>

LongNext ==
  \/ TickLong
  \/ \E k \in Keys : SeqAllow(k)
  \/ \E k \in Keys : SeqGetWindowValue(k)

SpecLong == SeqInit /\ [][LongNext]_vars

\* ------------------------------- sequential callers, clock set backward
\* The wall clock is set back by up to one window between two calls
\* (getTimePoints reads time.Now() without its monotonic part).
TickBack ==
  \E d \in 1..Window :
    /\ clock - d >= ClockStart
    /\ clock' = clock - d
    /\ UNCHANGED <<window, limit, zvars, mux, callvars, histvars, testvars, ctorvars>>

BackNext ==
  \/ Tick
  \/ TickBack
  \/ \E k \in Keys : SeqAllow(k)
  \/ \E k \in Keys : SeqGetWindowValue(k)

SpecBack == SeqInit /\ [][BackNext]_vars

\* ------------------------------------------------ AllowN (bulk admission)
\* AllowN(key, n): the protocol of Allow with n units.
\* Denied when estimate + n > limit.
DenyN(val, n) == val + n * window > limit * window

\* The current-window counter of the key grows by n.
addCounter(z, k, wndStart, n) ==
  LET m == getWndMap(z, wndStart, FALSE)
  IN IF m = "curr"
       THEN [z EXCEPT !.currMap[k] = (@ + n) % CounterModulus]
     ELSE IF m = "prev"
       THEN [z EXCEPT !.prevMap[k] = (@ + n) % CounterModulus]
     ELSE z

AllowNCall(p, k, n) == Call(p, "AllowN", k, n, MaxNCalls)

AllowCallN(p, k) == Call(p, "Allow", k, 1, MaxNCalls)

AllowNLock(p) ==
  /\ pc[p] = "waitLock"
  /\ op[p] = "AllowN"
  /\ Lock(p)
  /\ LET k == key[p]
         r == req[p]
         deny == DenyN(getWindowValue(Z, k, r.prev, r.curr, r.now), nArg[p])
     IN /\ ret' = [ret EXCEPT ![p] = ~deny]
        /\ pc' = [pc EXCEPT ![p] = IF deny THEN "unlock" ELSE "admit"]
  /\ UNCHANGED <<window, limit, zvars, clock, op, key, nArg, req, retVal, nCalls,
                 histvars, testvars, ctorvars>>

AllowNCommit(p) ==
  /\ pc[p] = "admit"
  /\ op[p] = "AllowN"
  /\ LET k == key[p]
         r == req[p]
         z2 == addCounter(shiftMaps(Z, r.prev, r.curr), k, r.curr, nArg[p])
     IN /\ prevMap' = z2.prevMap
        /\ currMap' = z2.currMap
        /\ prevWndStart' = z2.prevWndStart
        /\ currWndStart' = z2.currWndStart
        /\ admitted' = [admitted EXCEPT ![k][r.curr] = @ + nArg[p]]
  /\ pc' = [pc EXCEPT ![p] = "unlock"]
  /\ UNCHANGED <<window, limit, mux, clock, op, key, nArg, req, ret, retVal, nCalls,
                 decided, shadow, shRet, shVal, lastDenied, testvars, ctorvars>>

NextN ==
  \/ Tick
  \/ \E p \in Procs, k \in Keys, n \in Limits : AllowNCall(p, k, n)
  \/ \E p \in Procs : AllowNLock(p)
  \/ \E p \in Procs : AllowNCommit(p)
  \/ \E p \in Procs, k \in Keys : AllowCallN(p, k)
  \/ \E p \in Procs : AllowLock(p)
  \/ \E p \in Procs : AllowCommit(p)
  \/ \E p \in Procs : Unlock(p)

SpecN == Init /\ [][NextN]_vars

\* ------------------------------------------------ TestRatelimitZone
\* z := Must(New[string](wnd, uint8(limit))), started anywhere in a window.
TestInit ==
  /\ window = TestWnd
  /\ limit = TestLimit
  /\ InitZone
  /\ clock \in (2 * TestWnd)..(3 * TestWnd - 1)
  /\ InitCalls
  /\ InitHist
  /\ testPc = "loop1"
  /\ testI = 0
  /\ testRet = FALSE
  /\ CtorOff

\* One iteration of the first loop: sleep (but for i = 0), Allow("user1"),
\* t.Fatalf on a denial.
TestLoop1 ==
  /\ testPc = "loop1"
  /\ testI < limit - 1
  /\ LET t == IF testI # 0 THEN clock + sleepStep ELSE clock
         res == allowLocked(Z, "user1", getTimePoints(t))
     IN /\ clock' = t
        /\ prevMap' = res.z.prevMap
        /\ currMap' = res.z.currMap
        /\ prevWndStart' = res.z.prevWndStart
        /\ currWndStart' = res.z.currWndStart
        /\ testRet' = res.ok
        /\ testI' = testI + 1
        /\ testPc' = IF ~res.ok THEN "fatal"
                     ELSE IF testI + 1 = limit - 1 THEN "loop2" ELSE "loop1"
  /\ UNCHANGED <<window, limit, mux, callvars, histvars, ctorvars>>

\* The first Allow("user1") of the second loop: the 20th call, issued before
\* a window has gone by since the first call.
TestTwentieth ==
  /\ testPc = "loop2"
  /\ \E d \in 0..sleepStep :
       /\ (limit - 2) * sleepStep + d < window
       /\ LET t == clock + d
              res == allowLocked(Z, "user1", getTimePoints(t))
          IN /\ clock' = t
             /\ prevMap' = res.z.prevMap
             /\ currMap' = res.z.currMap
             /\ prevWndStart' = res.z.prevWndStart
             /\ currWndStart' = res.z.currWndStart
             /\ testRet' = res.ok
             /\ testI' = testI + 1
             /\ testPc' = "done"
  /\ UNCHANGED <<window, limit, mux, callvars, histvars, ctorvars>>

TestNext == TestLoop1 \/ TestTwentieth

SpecTest == TestInit /\ [][TestNext]_vars

\* ------------------------------------------------ constructor calls
CtorInit ==
  /\ window = Window
  /\ limit = MaxLimit
  /\ InitZone
  /\ clock = ClockStart
  /\ InitCalls
  /\ InitHist
  /\ TestOff
  /\ ctorPc = "call"
  /\ ctorArgs \in CtorArgs
  /\ ctorRl = NilRl
  /\ ctorErr = None

\* The call returns: its two results.
CtorReturn(res) ==
  /\ ctorRl' = res.rl
  /\ ctorErr' = res.err
  /\ ctorPc' = "done"
  /\ UNCHANGED <<window, limit, zvars, mux, clock, callvars, histvars, testvars, ctorArgs>>

NewCall ==
  /\ ctorPc = "call"
  /\ ctorArgs.fn = "New"
  /\ CtorReturn(New(ctorArgs.window, ctorArgs.limit, ctorArgs.bits))

NewSmallestCall ==
  /\ ctorPc = "call"
  /\ ctorArgs.fn = "NewSmallest"
  /\ CtorReturn(NewSmallest(ctorArgs.window, ctorArgs.limit))

FromStringCall ==
  /\ ctorPc = "call"
  /\ ctorArgs.fn = "FromString"
  /\ CtorReturn(FromString(ctorArgs.spec))

CtorNext == NewCall \/ NewSmallestCall \/ FromStringCall

SpecCtor == CtorInit /\ [][CtorNext]_vars

\* --------------------------------------------- fairly scheduled callers
AllowCallLive(p, k) == Call(p, "Allow", k, 1, MaxLiveCalls)

GetWindowValueCallLive(p, k) == Call(p, "GetWindowValue", k, 1, MaxLiveCalls)

LiveNext ==
  \/ Tick
  \/ \E p \in Procs, k \in Keys : AllowCallLive(p, k)
  \/ \E p \in Procs, k \in Keys : GetWindowValueCallLive(p, k)
  \/ \E p \in Procs : AllowLock(p)
  \/ \E p \in Procs : AllowCommit(p)
  \/ \E p \in Procs : GetWindowValueLock(p)
  \/ \E p \in Procs : Unlock(p)

\* A goroutine that can run does run, and sync.Mutex hands the lock to a
\* waiter that finds it free again and again (its starvation mode).
Fairness ==
  \A p \in Procs :
    /\ SF_vars(AllowLock(p))
    /\ SF_vars(GetWindowValueLock(p))
    /\ WF_vars(AllowCommit(p))
    /\ WF_vars(Unlock(p))

\* The smallest limit: a key's second call in a window takes the denied path.
LiveInit == Init /\ limit = 1

SpecLive == LiveInit /\ [][LiveNext]_vars /\ Fairness

\* ------------------------------------------------------------- claims
ZNext == Zone(prevMap', currMap', prevWndStart', currWndStart')

InCritical(p) == pc[p] \in {"admit", "unlock"}

\* C1: Allow returns false and changes no counter iff estimate + 1 > limit;
\* otherwise the count stored for the call's current window and key grows by
\* exactly 1, every other count of the call's two windows stays as it is, and
\* Allow returns true.
C1_AllowDecisionRule ==
  [][\A p \in Procs :
       LET k == key[p]
           r == req[p]
           est == getWindowValue(Z, k, r.prev, r.curr, r.now)
       IN /\ (pc[p] = "waitLock" /\ op[p] = "Allow" /\ pc'[p] # "waitLock") =>
               /\ (est + window > limit * window) <=>
                    (pc'[p] = "unlock" /\ ret'[p] = FALSE /\ UNCHANGED zvars)
               /\ ~(est + window > limit * window) <=> (pc'[p] = "admit")
          /\ (pc[p] = "admit" /\ op[p] = "Allow" /\ pc'[p] = "unlock") =>
               /\ ret'[p] = TRUE
               /\ \A k2 \in Keys, w \in {r.prev, r.curr} :
                    getCounter(ZNext, k2, w) =
                      getCounter(Z, k2, w) + (IF k2 = k /\ w = r.curr THEN 1 ELSE 0)
    ]_vars

\* C2: for every key, the number of Allow calls that returned true with a
\* captured timestamp inside one window never exceeds limit.
C2_LimitNeverExceededByRace ==
  \A k \in Keys, w \in Times : admitted[k][w] <= limit

\* C3: a call is inside its critical section only while it holds the mutex,
\* so at most one call is inside, and nothing changes the mappings or the
\* window starts between a call's estimate check and its increment.
C3_MutualExclusion ==
  /\ [](\A p \in Procs : InCritical(p) => mux = p)
  /\ [][\A p \in Procs : (pc[p] = "admit" /\ pc'[p] = "admit") => UNCHANGED zvars]_vars

\* C3 witness: one caller is between its estimate check and its increment
\* while the other waits for the mutex.
C3_Witness ==
  \E p, q \in Procs : pc[p] = "admit" /\ pc[q] = "waitLock" /\ mux = p

\* C5: every call on a key returns what it returns in the run that differs
\* only by leaving out the calls made for the other keys.
C5_KeyIndependence ==
  \A p \in Procs :
    pc[p] \in {"admit", "unlock"} =>
      /\ op[p] = "Allow" => ret[p] = shRet[p]
      /\ op[p] = "GetWindowValue" => retVal[p] = shVal[p]

\* C6: every value GetWindowValue returns lies in [0, limit].
C6_WindowValueWithinLimit ==
  \A p \in Procs :
    (pc[p] = "unlock" /\ op[p] = "GetWindowValue") =>
      (0 <= retVal[p] /\ retVal[p] <= limit * window)

RECURSIVE SumOver(_, _)
SumOver(f, S) ==
  IF S = {} THEN 0 ELSE LET x == CHOOSE y \in S : TRUE IN f[x] + SumOver(f, S \ {x})

Total(f) == SumOver(f, Times)

Min(a, b) == IF a <= b THEN a ELSE b

\* C4: on a fresh limiter, when all Allow calls for a key fall in one window,
\* exactly the first limit of them return true and the further ones false;
\* a first Allow for another key still returns true.
C4_FirstLimitCallsAdmitted ==
  \A k \in Keys, w \in Times :
    decided[k][w] = Total(decided[k]) =>
      admitted[k][w] = Min(decided[k][w], limit)

\* C4 witness: user1 was admitted limit times and then denied in one window,
\* and the Allow for user2 that followed returned true.
C4_Witness ==
  \E w \in Times :
    /\ limit >= 2
    /\ decided["user1"][w] = limit + 1
    /\ admitted["user1"][w] = limit
    /\ Total(decided["user1"]) = limit + 1
    /\ op[Caller] = "Allow" /\ key[Caller] = "user2" /\ ret[Caller] = TRUE
    /\ req[Caller].curr = w

\* C8: AllowN(key, n) returns false and leaves the state unchanged iff
\* estimate + n > limit; otherwise the count stored for the call's current
\* window and key grows by exactly n and AllowN returns true.
C8_AllowNAllOrNothing ==
  [][\A p \in Procs :
       LET k == key[p]
           r == req[p]
           est == getWindowValue(Z, k, r.prev, r.curr, r.now)
       IN /\ (pc[p] = "waitLock" /\ op[p] = "AllowN" /\ pc'[p] # "waitLock") =>
               /\ (est + nArg[p] * window > limit * window) <=>
                    (pc'[p] = "unlock" /\ ret'[p] = FALSE /\ UNCHANGED zvars)
               /\ ~(est + nArg[p] * window > limit * window) <=> (pc'[p] = "admit")
          /\ (pc[p] = "admit" /\ op[p] = "AllowN" /\ pc'[p] = "unlock") =>
               /\ ret'[p] = TRUE
               /\ \A k2 \in Keys, w \in {r.prev, r.curr} :
                    getCounter(ZNext, k2, w) =
                      getCounter(Z, k2, w) + (IF k2 = k /\ w = r.curr THEN nArg[p] ELSE 0)
    ]_vars

\* C9: on a fresh limiter the first limit - 1 Allow calls for a key all
\* return true, however they are spaced and whatever windows they fall in.
C9_FirstCallsAdmitted ==
  \A k \in Keys :
    Total(decided[k]) <= limit - 1 => Total(admitted[k]) = Total(decided[k])

\* C9 witness: limit - 1 >= 2 calls for one key, in two different windows,
\* all admitted.
C9_Witness ==
  \E k \in Keys, w1, w2 \in Times :
    /\ w1 # w2
    /\ admitted[k][w1] >= 1 /\ admitted[k][w2] >= 1
    /\ Total(decided[k]) = limit - 1
    /\ Total(admitted[k]) = limit - 1

\* C10 as stated: after the 19 admitted calls the 20th Allow is denied.
C10_TwentiethDenied ==
  testPc = "done" => testRet = FALSE

\* C10 amended: the 19 calls are admitted and the 20th Allow is admitted too.
C10_TwentiethAdmitted ==
  /\ testPc # "fatal"
  /\ testPc = "done" => testRet = TRUE

\* C10 witness: the 20th call has returned, all 20 calls in one window.
C10_Witness ==
  /\ testPc = "done"
  /\ testI = TestLimit
  /\ currMap["user1"] = TestLimit

\* C11 as stated: once a full window has passed since a key's Allow was
\* denied, with no Allow for the key in between, GetWindowValue(key) returns
\* less than 1, whatever the offset at which the key was saturated.
C11_CooldownBelowOne ==
  \A k \in Keys : \A t \in lastDenied[k] :
    (op[Caller] = "GetWindowValue" /\ key[Caller] = k /\ req[Caller].now >= t + window) =>
      retVal[Caller] < window

\* C11 amended: once a full window has passed since a key's Allow was denied,
\* with no Allow for the key in between, GetWindowValue(key) returns at most
\* limit * (1 - elapsed fraction of the query's window): the saturated count
\* decays linearly over the following window instead of being gone after one
\* window duration.
C11_CooldownDecays ==
  \A k \in Keys : \A t \in lastDenied[k] :
    (op[Caller] = "GetWindowValue" /\ key[Caller] = k /\ req[Caller].now >= t + window) =>
      retVal[Caller] <= limit * (window - (req[Caller].now - req[Caller].curr))

\* C11 witness: a key saturated at the start of a window is queried exactly
\* one window later and its estimate is still the full limit.
C11_Witness ==
  \E k \in Keys : \E t \in lastDenied[k] :
    /\ op[Caller] = "GetWindowValue" /\ key[Caller] = k
    /\ req[Caller].now = t + window
    /\ retVal[Caller] = limit * window

\* Whether a uint64 is at most the largest value of an unsigned width.
FitsWidth(lim, bits) ==
  CASE bits = 8 -> lim[1] <= uint8Max /\ lim[2] = 0 /\ lim[3] = 0 /\ lim[4] = 0
    [] bits = 16 -> lim[2] = 0 /\ lim[3] = 0 /\ lim[4] = 0
    [] bits = 32 -> lim[3] = 0 /\ lim[4] = 0
    [] OTHER -> TRUE

\* The boundary limits 1, 255, 256, 65535, 65536, 4294967295, 4294967296 and
\* the widths the claim gives them.
WidthBoundaries ==
  {<<U64(1), 8>>, <<U64(255), 8>>, <<U64(256), 16>>, <<U64(65535), 16>>,
   <<U64(65536), 32>>, <<<<65535, 65535, 0, 0>>, 32>>, <<<<0, 0, 1, 0>>, 64>>}

\* C12: NewSmallest(window, limit) picks the narrowest counter width whose
\* maximum is >= limit, the constructed limiter's limit equals the requested
\* 64-bit limit (the narrowing conversion never truncates), and the boundary
\* limits get 8, 8, 16, 16, 32, 32 and 64 bits.
C12_NewSmallestWidth ==
  (ctorPc = "done" /\ ctorArgs.fn = "NewSmallest" /\ ctorRl.kind = "zone") =>
    /\ ctorRl.bits \in Widths
    /\ FitsWidth(ctorArgs.limit, ctorRl.bits)
    /\ \A b \in Widths : b < ctorRl.bits => ~FitsWidth(ctorArgs.limit, b)
    /\ ctorRl.limit = ctorArgs.limit
    /\ \A e \in WidthBoundaries : ctorArgs.limit = e[1] => ctorRl.bits = e[2]

\* C12 witness: NewSmallest was called with limit 4294967296 and returned a
\* limiter with 64-bit counters and that limit.
C12_Witness ==
  /\ ctorPc = "done" /\ ctorArgs.fn = "NewSmallest" /\ ctorRl.kind = "zone"
  /\ ctorArgs.limit = <<0, 0, 1, 0>>
  /\ ctorRl.bits = 64
  /\ ctorRl.limit = <<0, 0, 1, 0>>

\* A specification "<count>/<duration>" whose count is written with zeros only.
ZeroCount(str) ==
  \E i \in DOMAIN str : i > 1 /\ str[i] = "/" /\ \A h \in 1..(i - 1) : str[h] = "0"

\* C13: New(window, limit) returns an error and no limiter if window <= 0 or
\* limit == 0, also when reached through NewSmallest or FromString (a parsed
\* count of 0); otherwise it returns a limiter with window > 0, limit > 0,
\* both mappings empty and both window starts unset.  No constructor returns
\* a limiter with window <= 0 or limit == 0.
C13_ConstructionValidation ==
  ctorPc = "done" =>
    LET a == ctorArgs
        bad == a.window <= 0 \/ a.limit = <<0, 0, 0, 0>>
    IN /\ (ctorErr # None) <=> (ctorRl.kind # "zone")
       /\ a.fn \in {"New", "NewSmallest"} => (bad <=> ctorErr # None)
       /\ (a.fn \in {"New", "NewSmallest"} /\ ~bad) =>
            (ctorRl.window = a.window /\ ctorRl.limit = a.limit)
       /\ (a.fn = "FromString" /\ ZeroCount(a.spec)) => ctorErr # None
       /\ ctorRl.kind = "zone" =>
            /\ ctorRl.window > 0
            /\ ctorRl.limit # <<0, 0, 0, 0>>
            /\ \A k \in Keys : ctorRl.prevMap[k] = 0 /\ ctorRl.currMap[k] = 0
            /\ ctorRl.prevWndStart = 0 /\ ctorRl.currWndStart = 0

\* C13 witness: a specification with count 0 and a good duration went through
\* FromString and NewSmallest to New and came back with the zero-limit error.
C13_Witness ==
  /\ ctorPc = "done" /\ ctorArgs.fn = "FromString"
  /\ ctorArgs.spec = <<"0", "/", "1", "s">>
  /\ ctorErr = ErrZeroLimit
  /\ ctorRl.kind # "zone"

\* C14: every Allow and GetWindowValue call that starts returns, on the
\* denied path too, and the mutex it took is released: under fair scheduling
\* no caller waits forever and the mutex does not stay held.
C14_CallsReturn ==
  /\ \A p \in Procs : (pc[p] # "idle") ~> (pc[p] = "idle")
  /\ \A p \in Procs : (mux = p) ~> (mux = None)

\* C14 witness: a denied Allow holds the mutex while the other caller waits
\* for it.
C14_Witness ==
  \E p, q \in Procs :
    /\ pc[p] = "unlock" /\ op[p] = "Allow" /\ ret[p] = FALSE /\ mux = p
    /\ pc[q] = "waitLock"

\* The count stored for key k and the window that starts at w: that of the
\* stored mapping whose window start is w, 0 if neither mapping carries w.
StoredCount(k, w) ==
  IF w = currWndStart THEN currMap[k]
  ELSE IF w = prevWndStart THEN prevMap[k]
  ELSE 0

\* C15: the estimate of a call at time now, with currentWindowStart = now
\* truncated to a multiple of window, is
\* previousCount * (1 - (now - currentWindowStart)/window) + currentCount,
\* the weight lies in (0, 1], and the two counts are those stored for exactly
\* the windows starting at currentWindowStart - window and currentWindowStart,
\* 0 when no stored mapping carries that start.
C15_WeightedEstimate ==
  \A p \in Procs :
    (pc[p] = "unlock" /\ op[p] = "GetWindowValue") =>
      LET now == req[p].now
          elapsed == now % window
          cws == now - elapsed
      IN /\ req[p].curr = cws /\ req[p].prev = cws - window
         /\ 0 < window - elapsed /\ window - elapsed <= window
         /\ retVal[p] = StoredCount(key[p], cws - window) * (window - elapsed)
                          + StoredCount(key[p], cws) * window

\* C15 witness: an estimate made inside a window (weight below 1) from a
\* previous and a current count that are both positive.
C15_Witness ==
  \E p \in Procs :
    /\ pc[p] = "unlock" /\ op[p] = "GetWindowValue"
    /\ req[p].now # req[p].curr
    /\ StoredCount(key[p], req[p].prev) > 0
    /\ StoredCount(key[p], req[p].curr) > 0
    /\ retVal[p] = StoredCount(key[p], req[p].prev) * (window - (req[p].now - req[p].curr))
                     + StoredCount(key[p], req[p].curr) * window

\* p's Allow leaves its locked section in this step, admitted or denied.
AllowDecided(p) ==
  /\ op[p] = "Allow"
  /\ \/ pc[p] = "admit" /\ pc'[p] = "unlock"
     \/ pc[p] = "waitLock" /\ pc'[p] = "unlock"

\* C16 as stated: whenever an Allow call's computed window starts differ from
\* the stored ones, both mappings are replaced with fresh empty ones (every
\* stored count of every key is dropped, so that only the admitted call's own
\* event is counted afterwards) and the stored window starts are set to the
\* computed ones.
C16_RotationDropsBoth ==
  [][\A p \in Procs :
       (/\ AllowDecided(p)
        /\ <<req[p].prev, req[p].curr>> # <<prevWndStart, currWndStart>>) =>
         /\ prevWndStart' = req[p].prev
         /\ currWndStart' = req[p].curr
         /\ prevMap' = EmptyMap
         /\ \A k \in Keys : currMap'[k] = IF k = key[p] /\ ret'[p] THEN 1 ELSE 0
    ]_vars

\* C16 amended: only an admitted Allow rotates (a denied one leaves the
\* mappings and the stored window starts as they are).  It sets the stored
\* window starts to the computed ones; the previous mapping becomes the
\* mapping that was stored for the computed previous start (the old current
\* mapping when time has advanced by exactly one window), a fresh empty one
\* if none was; the current mapping is kept if the stored current start is
\* the computed one and is a fresh empty one otherwise; then the key's
\* current count grows by 1.
C16_RotationCarriesStoredWindows ==
  [][\A p \in Procs :
       /\ (op[p] = "Allow" /\ pc[p] = "waitLock" /\ pc'[p] = "unlock") => UNCHANGED zvars
       /\ (op[p] = "Allow" /\ pc[p] = "admit" /\ pc'[p] = "unlock") =>
            /\ prevWndStart' = req[p].prev
            /\ currWndStart' = req[p].curr
            /\ \A k \in Keys :
                 /\ prevMap'[k] = StoredCount(k, req[p].prev)
                 /\ currMap'[k] = (IF req[p].curr = currWndStart THEN currMap[k] ELSE 0)
                                    + (IF k = key[p] THEN 1 ELSE 0)
    ]_vars

\* C16 witness: an admitted Allow has just rotated into a new window (the
\* current mapping holds nothing but its own event) and the previous mapping
\* still carries counts.
C16_Witness ==
  \E p \in Procs :
    /\ pc[p] = "unlock" /\ op[p] = "Allow" /\ ret[p] = TRUE
    /\ prevWndStart = req[p].prev /\ currWndStart = req[p].curr
    /\ \A k \in Keys : currMap[k] = IF k = key[p] THEN 1 ELSE 0
    /\ \E k \in Keys : prevMap[k] > 0

\* C17 as stated: GetWindowValue rotates without incrementing: once it has
\* computed its value the stored window starts are the ones computed for the
\* call, and no counter has grown.
C17_GetWindowValueRotates ==
  \A p \in Procs :
    (pc[p] = "unlock" /\ op[p] = "GetWindowValue") =>
      /\ currWndStart = req[p].curr
      /\ prevWndStart = req[p].prev

\* C17 amended: GetWindowValue changes nothing: no step of a GetWindowValue
\* call changes a mapping or a stored window start, so stale stored state is
\* left as it is (not rotated) and no counter grows.
C17_GetWindowValueReadOnly ==
  [][\A p \in Procs :
       (pc'[p] # pc[p] /\ (op[p] = "GetWindowValue" \/ op'[p] = "GetWindowValue")) =>
         UNCHANGED zvars
    ]_vars

\* C17 witness: GetWindowValue has computed a positive estimate from stored
\* state that is one window behind the call, and the state is still behind.
C17_Witness ==
  \E p \in Procs :
    /\ pc[p] = "unlock" /\ op[p] = "GetWindowValue"
    /\ currWndStart = req[p].prev
    /\ retVal[p] > 0

\* The stored window starts have been set by a rotation (they are not the
\* zero time New leaves them at).
Populated == currWndStart # 0 \/ prevWndStart # 0

\* C18: whenever the stored window starts are populated, both are multiples
\* of window and previousWindowStart = currentWindowStart - window, after any
\* interleaving of Allow and GetWindowValue calls.
C18_WindowStartInvariant ==
  Populated =>
    /\ currWndStart % window = 0
    /\ prevWndStart % window = 0
    /\ prevWndStart = currWndStart - window

\* C18 witness: an Allow that captured its time in an older window has just
\* rotated the populated state back to its own windows.
C18_Witness ==
  \E p \in Procs :
    /\ pc[p] = "unlock" /\ op[p] = "Allow" /\ ret[p] = TRUE
    /\ req[p].curr < clock - (clock % window)
    /\ currWndStart = req[p].curr
    /\ prevWndStart = req[p].curr - window
    /\ \E k \in Keys, w \in Times : w > req[p].curr /\ admitted[k][w] > 0

\* C19: every count stored in either mapping is between 0 and limit, so an
\* increment never wraps around the counter width, under any interleaving.
C19_CounterBound ==
  \A k \in Keys :
    /\ 0 <= currMap[k] /\ currMap[k] <= limit
    /\ 0 <= prevMap[k] /\ prevMap[k] <= limit
    /\ limit < CounterModulus

\* C19 witness: a key's current count stands at a limit of at least 2 and an
\* Allow for it has just been denied.
C19_Witness ==
  \E p \in Procs :
    /\ pc[p] = "unlock" /\ op[p] = "Allow" /\ ret[p] = FALSE
    /\ limit >= 2
    /\ currWndStart = req[p].curr
    /\ currMap[key[p]] = limit

\* C20: with sequential calls and a clock that may step backward between
\* calls, also across a window boundary, no recorded count is lost (the
\* counts stored for the two windows of an Allow call do not shrink in that
\* call) and, for every key, the number of Allow calls that returned true
\* with timestamps in one window never exceeds limit.
C20_BackwardClockHarmless ==
  /\ [](\A k \in Keys, w \in Times : admitted[k][w] <= limit)
  /\ [][(op'[Caller] = "Allow" /\ nCalls' # nCalls) =>
          \A k \in Keys, w \in {req'[Caller].prev, req'[Caller].curr} :
            getCounter(ZNext, k, w) >= getCounter(Z, k, w)
       ]_vars

\* Key k has an entry in a stored mapping.
Retained(k) == prevMap[k] > 0 \/ currMap[k] > 0

\* C21 as stated: after any operation (Allow, admitted or denied, or
\* GetWindowValue) completes for time t, only keys admitted in the window
\* containing t or in the one before it are retained in the stored mappings.
C21_OnlyRecentKeysRetained ==
  op[Caller] # "none" =>
    \A k \in Keys :
      Retained(k) =>
        (admitted[k][req[Caller].curr] > 0 \/ admitted[k][req[Caller].prev] > 0)

\* C21 amended: the limiter retains only keys admitted in its two stored
\* windows, which are the window of the latest admitted Allow and the one
\* before it: after an admitted Allow for time t these are the window
\* containing t and its predecessor; a denied Allow and GetWindowValue evict
\* nothing, so older keys stay until the next admitted Allow.
C21_StoredWindowsKeysRetained ==
  /\ \A k \in Keys :
       /\ currMap[k] > 0 => admitted[k][currWndStart] > 0
       /\ prevMap[k] > 0 => admitted[k][prevWndStart] > 0
  /\ (op[Caller] = "Allow" /\ ret[Caller] = TRUE) =>
       /\ currWndStart = req[Caller].curr /\ prevWndStart = req[Caller].prev
       /\ \A k \in Keys :
            Retained(k) =>
              (admitted[k][req[Caller].curr] > 0 \/ admitted[k][req[Caller].prev] > 0)

\* C21 witness: GetWindowValue has completed two windows or more after the
\* stored current window, and a key admitted back then is still retained.
C21_Witness ==
  \E k \in Keys :
    /\ op[Caller] = "GetWindowValue"
    /\ req[Caller].prev > currWndStart
    /\ currMap[k] > 0
    /\ admitted[k][req[Caller].curr] = 0 /\ admitted[k][req[Caller].prev] = 0

\* For every key, the count stored for each of the two stored windows is the
\* number of Allow calls for the key that returned true with timestamps in
\* that window.
StoredCountsAreHistory ==
  \A k \in Keys :
    /\ currMap[k] = admitted[k][currWndStart]
    /\ prevMap[k] = admitted[k][prevWndStart]

\* The only entry of the current mapping after the step is the event of the
\* Allow that the step admitted, if it admitted one.
OnlyOwnEventNext ==
  \A k \in Keys :
    currMap'[k] =
      IF op'[Caller] = "Allow" /\ ret'[Caller] /\ key'[Caller] = k THEN 1 ELSE 0

\* C22 as stated: with sequential calls and a forward clock, after every
\* operation the count stored for each of the two stored windows equals the
\* number of admitted Allow calls of the key in that window; when time has
\* advanced by exactly one window the old current counts become the previous
\* counts unchanged, and when it has advanced by two or more windows all
\* counts are discarded.
C22_CountsTrackHistory ==
  /\ []StoredCountsAreHistory
  /\ [][(nCalls' # nCalls) =>
          /\ req'[Caller].curr = currWndStart + window => prevMap' = currMap
          /\ (Populated /\ req'[Caller].curr >= currWndStart + 2 * window) =>
               (prevMap' = EmptyMap /\ OnlyOwnEventNext)
       ]_vars

\* C22 amended: after every operation the count stored for each of the two
\* stored windows equals the number of admitted Allow calls of the key in
\* that window.  An admitted Allow made after time advanced by exactly one
\* window turns the old current counts into the previous counts unchanged;
\* one made after two or more windows discards all counts (and records its
\* own event); a denied Allow and GetWindowValue leave the stored counts and
\* window starts as they are, whatever time has passed.
C22_CountsTrackAdmittedHistory ==
  /\ []StoredCountsAreHistory
  /\ [][(nCalls' # nCalls) =>
          IF op'[Caller] = "Allow" /\ ret'[Caller]
            THEN /\ req'[Caller].curr = currWndStart + window => prevMap' = currMap
                 /\ req'[Caller].curr >= currWndStart + 2 * window =>
                      (prevMap' = EmptyMap /\ OnlyOwnEventNext)
            ELSE UNCHANGED zvars
       ]_vars

\* C22 witness: an Allow admitted two or more windows after earlier admitted
\* events has discarded their counts: only its own event is stored.
C22_Witness ==
  /\ op[Caller] = "Allow" /\ ret[Caller] = TRUE
  /\ currWndStart = req[Caller].curr
  /\ prevMap = EmptyMap
  /\ \A k \in Keys : currMap[k] = IF k = key[Caller] THEN 1 ELSE 0
  /\ \E k \in Keys, w \in Times :
       admitted[k][w] > 0 /\ w + 2 * window <= req[Caller].curr

====
